---- MODULE Spec2Model ----
(***************************************************************************)
(* PlatformKeyboardLayout (darwin/macos/keyboard_layout.rs): the cached    *)
(* keyboard layout of the active input source, its lazy resolution through *)
(* UCKeyTranslate, and the distributed-notification observer that          *)
(* invalidates it.                                                         *)
(*                                                                         *)
(* Option<T> is modelled as a sequence: None is << >>, Some(v) is <<v>>.   *)
(* The engine lives on one thread (Rc/Weak/RefCell are not Send): the run  *)
(* loop dispatches the observer only between calls, and the delegate runs  *)
(* inside the observer.                                                    *)
(***************************************************************************)
EXTENDS Integers, Sequences, FiniteSets, TLC

\* ---------------------------------------------------------------- bounds
\* Number of entries of the key map.
NumKeys == 2
\* Number of keyboard input sources the OS can select.
NumSources == 2
\* Number of input-source selections the OS performs in a run.
MaxChanges == 2
\* Notifications the notification center queues before it coalesces.
MaxPending == 2

\* ------------------------------------------------------- program constants
shiftKey == 512
altKey == 2048
cmdKey == 256
kUCKeyTranslateNoDeadKeysMask == 1

\* ------------------------------------------------------------ Option<T>
None == << >>
Some(v) == <<v>>

\* ------------------------------------------------------------ bit helpers
RECURSIVE BitOr(_, _)
BitOr(a, b) ==
    IF a = 0 THEN b
    ELSE IF b = 0 THEN a
    ELSE (IF (a % 2 = 1) \/ (b % 2 = 1) THEN 1 ELSE 0) + 2 * BitOr(a \div 2, b \div 2)

\* (m >> 8) & 0xFF
ModifierByte(m) == (m \div 256) % 256

\* The five modifier_key_state arguments, in the order key_from_entry uses them.
ModNone == 0
ModShift == ModifierByte(shiftKey)
ModAlt == ModifierByte(altKey)
ModAltShift == BitOr(ModifierByte(shiftKey), ModifierByte(altKey))
ModCmd == ModifierByte(cmdKey)

\* ------------------------------------------------------ the OS: key layouts
Sources == 1 .. NumSources
\* TISCopyCurrentASCIICapableKeyboardLayoutInputSource returned NULL.
NoSource == 0

\* The uchr tables of the input sources: whether a key with a modifier state
\* produces a character, whether it is a dead key, and the UTF-16 unit.
Produces(src, code, mods) == (src + code + mods) % 3 # 0
IsDeadKey(src, code, mods) == (src + 2 * code + mods) % 4 = 1
Glyph(src, code, mods) == 1000 * src + 16 * code + mods
Composed(dead, src, code, mods) == 20000 + 100 * dead + (Glyph(src, code, mods) % 100)

\* UCKeyTranslate with maxStringLength 1: the in/out parameters deadKeyState,
\* actualStringLength and unicodeString are the record st. With the
\* no-dead-keys option a dead key yields its spacing glyph and deadKeyState is
\* left alone; without it a dead key yields nothing and arms deadKeyState, and
\* an armed deadKeyState composes with the next key. A NULL layout is an error
\* return that writes nothing.
UCKeyTranslate(layout, code, mods, options, st) ==
    IF layout = NoSource THEN st
    ELSE IF options % 2 = 1 THEN
        IF Produces(layout, code, mods)
        THEN [st EXCEPT !.unichar_count = 1, !.unichar = Glyph(layout, code, mods)]
        ELSE [st EXCEPT !.unichar_count = 0]
    ELSE IF st.dead_key_state # 0 THEN
        [dead_key_state |-> 0, unichar_count |-> 1,
         unichar |-> Composed(st.dead_key_state, layout, code, mods)]
    ELSE IF IsDeadKey(layout, code, mods) THEN
        [st EXCEPT !.dead_key_state = code + 1, !.unichar_count = 0]
    ELSE IF Produces(layout, code, mods)
        THEN [st EXCEPT !.unichar_count = 1, !.unichar = Glyph(layout, code, mods)]
        ELSE [st EXCEPT !.unichar_count = 0]

\* ------------------------------------------------------------ the key map
\* KeyMapEntry { platform, physical, logical }: entry i of the generated map;
\* fixed is the set of entries that carry a fixed logical value.
KeyMapEntry(i, fixed) ==
    [platform |-> i - 1, physical |-> 100 + i,
     logical |-> IF i \in fixed THEN Some(200 + i) ELSE None]

get_key_map(fixed) == [i \in 1 .. NumKeys |-> KeyMapEntry(i, fixed)]

\* The generated map always holds layout-dependent keys (the letters) beside
\* the fixed ones (function keys, Enter, ...).
KeyMaps == { get_key_map(fixed) : fixed \in (SUBSET (1 .. NumKeys)) \ {1 .. NumKeys} }

\* --------------------------------------------------------- key_from_entry
\* if unichar_count > 0 { field.replace(unichar as i64) }
FieldMutNoCountCheck(st) == Some(st.unichar)
FieldOf(st) == IF st.unichar_count > 0 THEN Some(st.unichar) ELSE None

\* The options argument of the five UCKeyTranslate calls.
TranslateOptionsMutDeadKeys == kUCKeyTranslateNoDeadKeysMask - 1
TranslateOptions == kUCKeyTranslateNoDeadKeysMask

\* Some(logical) => Key { logical: Some(logical), the rest None }
FixedKey(entry) ==
    [platform |-> entry.platform, physical |-> entry.physical,
     logical |-> entry.logical, logical_shift |-> None,
     logical_alt |-> None, logical_alt_shift |-> None, logical_meta |-> None]

\* None => five UCKeyTranslate calls sharing dead_key_state, unichar and
\* unichar_count, each followed by the unichar_count test.
TranslatedKey(entry, layout_data) ==
    LET s0 == [dead_key_state |-> 0, unichar |-> 0, unichar_count |-> 0]
        s1 == UCKeyTranslate(layout_data, entry.platform, ModNone, TranslateOptions, s0)
        s2 == UCKeyTranslate(layout_data, entry.platform, ModShift, TranslateOptions, s1)
        s3 == UCKeyTranslate(layout_data, entry.platform, ModAlt, TranslateOptions, s2)
        s4 == UCKeyTranslate(layout_data, entry.platform, ModAltShift, TranslateOptions, s3)
        s5 == UCKeyTranslate(layout_data, entry.platform, ModCmd, TranslateOptions, s4)
    IN  [platform |-> entry.platform, physical |-> entry.physical,
         logical |-> FieldOf(s1), logical_shift |-> FieldOf(s2),
         logical_alt |-> FieldOf(s3), logical_alt_shift |-> FieldOf(s4),
         logical_meta |-> FieldOf(s5)]

\* The Key an entry yields and the UCKeyTranslate calls made for it.
key_from_entry_mut_translate_fixed(entry, layout_data) ==
    [key |-> [TranslatedKey(entry, layout_data) EXCEPT !.logical = entry.logical],
     translate_calls |-> 5]
key_from_entry(entry, layout_data) ==
    IF entry.logical # None
    THEN [key |-> FixedKey(entry), translate_calls |-> 0]
    ELSE [key |-> TranslatedKey(entry, layout_data), translate_calls |-> 5]

\* ------------------------------------------------------------------ state
VARIABLES
    key_map,          \* get_key_map(): the generated key map
    active_source,    \* OS: the selected input source, NoSource when there is none
    posted,           \* OS: notifications queued for the observer token
    changes,          \* OS: input-source selections made so far
    last_notified,    \* the latest selection was made while self.observer held a token
    status,           \* "running", "panicked" (Rust panic) or "crashed"
    owner,            \* the caller holds its Rc<PlatformKeyboardLayout>
    in_observer,      \* observer() holds the upgraded Rc and the delegate runs
    dropped,          \* Drop for PlatformKeyboardLayout has run
    other_weak,       \* some Weak besides weak_self and the token exists
    weak_self,        \* self.weak_self has been set
    observer,         \* self.observer: 0 is null, 1 is the raw Weak pointer
    registrations,    \* observers the notification center holds for the engine
    adds,             \* CFNotificationCenterAddObserver calls
    removes,          \* CFNotificationCenterRemoveObserver calls
    token_weak,       \* weak references owned by the raw token
    delegate,         \* self.delegate.upgrade() would succeed
    delegate_calls,   \* keyboard_map_did_change invocations
    current_layout,   \* self.current_layout: Option<KeyboardLayout>
    borrowed,         \* the RefCell of current_layout is mutably borrowed
    pc,               \* position inside get_current_layout
    input_source,     \* create_keyboard_layout: the copied handle, Some(NoSource) is NULL
    keys,             \* create_keyboard_layout: the keys collected so far
    calls,            \* UCKeyTranslate calls made by the current get_current_layout
    result,           \* what get_current_layout returned last
    in_a_row,         \* notifications handled since get_current_layout last returned
    unavailable,      \* the current get_current_layout copied a NULL input source
    stale,            \* observer() ran after the engine was dropped
    deref_released,   \* observer() used a token whose weak reference was released
    resolved_from     \* the input source the latest stored snapshot was resolved from

vars == <<key_map, active_source, posted, changes, last_notified, status, owner,
          in_observer, dropped, other_weak, weak_self, observer, registrations,
          adds, removes, token_weak, delegate, delegate_calls, current_layout,
          borrowed, pc, input_source, keys, calls, result, in_a_row,
          unavailable, stale, deref_released, resolved_from>>

osVars == <<active_source, posted, changes, last_notified>>
lifeVars == <<owner, in_observer, dropped, other_weak>>
subVars == <<weak_self, observer, registrations, adds, removes, token_weak>>
delegateVars == <<delegate, delegate_calls>>
getVars == <<pc, input_source, keys, calls, result, unavailable>>
ghostVars == <<in_a_row, stale, deref_released, resolved_from>>

\* PlatformKeyboardLayout::new, before assign_weak_self.
Init ==
    /\ key_map \in KeyMaps
    /\ active_source \in Sources \cup {NoSource}
    /\ posted = 0
    /\ changes = 0
    /\ last_notified = FALSE
    /\ status = "running"
    /\ owner = TRUE
    /\ in_observer = FALSE
    /\ dropped = FALSE
    /\ other_weak \in BOOLEAN
    /\ weak_self = FALSE
    /\ observer = 0
    /\ registrations = 0
    /\ adds = 0
    /\ removes = 0
    /\ token_weak = 0
    /\ delegate = TRUE
    /\ delegate_calls = 0
    /\ current_layout = None
    /\ borrowed = FALSE
    /\ pc = "idle"
    /\ input_source = None
    /\ keys = << >>
    /\ calls = 0
    /\ result = None
    /\ in_a_row = 0
    /\ unavailable = FALSE
    /\ stale = FALSE
    /\ deref_released = FALSE
    /\ resolved_from = NoSource

\* The caller can run a method: it is alive, holds the engine and is not
\* inside another call.
CallerReady == status = "running" /\ owner /\ ~dropped /\ pc = "idle"

\* ------------------------------------------------------ get_current_layout
\* get_or_insert_with: the closure runs only when the slot is None.
SlotFilledMutNever(slot) == FALSE
SlotFilled(slot) == slot # None

\* self.current_layout.borrow_mut(), then get_or_insert_with looks at the slot.
GetBegin ==
    /\ CallerReady
    /\ IF borrowed
       THEN /\ status' = "panicked"
            /\ UNCHANGED <<borrowed, pc, calls, unavailable>>
       ELSE /\ borrowed' = TRUE
            /\ pc' = IF SlotFilled(current_layout) THEN "clone" ELSE "create"
            /\ calls' = 0
            /\ unavailable' = FALSE
            /\ UNCHANGED status
    /\ UNCHANGED <<key_map, osVars, lifeVars, subVars, delegateVars, current_layout,
                   input_source, keys, result, ghostVars>>

\* create_keyboard_layout: TISCopyCurrentASCIICapableKeyboardLayoutInputSource
\* and TISGetInputSourceProperty. The handle is not tested for NULL; the
\* property lookup on NULL either traps or yields no layout data.
CopyInputSource ==
    /\ status = "running"
    /\ pc = "create"
    /\ \/ /\ input_source' = Some(active_source)
          /\ unavailable' = (active_source = NoSource)
          /\ keys' = << >>
          /\ pc' = "keys"
          /\ UNCHANGED status
       \/ /\ active_source = NoSource
          /\ unavailable' = TRUE
          /\ status' = "crashed"
          /\ UNCHANGED <<input_source, keys, pc>>
    /\ UNCHANGED <<key_map, osVars, lifeVars, subVars, delegateVars, current_layout,
                   borrowed, calls, result, ghostVars>>

\* key_map.iter(): the entry that follows the keys collected so far.
EntryAtMutReverse(km, collected) == km[NumKeys - Len(collected)]
EntryAt(km, collected) == km[Len(collected) + 1]

\* layout_data is read once from the copied input source, before the
\* iteration, and handed to every key_from_entry call; current is the source
\* the OS has selected at the time of the call.
LayoutDataMutReread(copied, current) == current
LayoutData(copied, current) == copied[1]

\* One step of key_map.iter().map(|a| self.key_from_entry(a, layout_data)).
\* CFDataGetBytePtr and UCKeyTranslate on missing layout data either trap or
\* return without writing their out-parameters.
KeyFromEntry ==
    /\ status = "running"
    /\ pc = "keys"
    /\ Len(keys) < NumKeys
    /\ LET entry == EntryAt(key_map, keys)
           layout_data == LayoutData(input_source, active_source)
           made == key_from_entry(entry, layout_data)
       IN  \/ /\ keys' = Append(keys, made.key)
              /\ calls' = calls + made.translate_calls
              /\ UNCHANGED status
           \/ /\ layout_data = NoSource
              /\ made.translate_calls > 0
              /\ status' = "crashed"
              /\ UNCHANGED <<keys, calls>>
    /\ UNCHANGED <<key_map, osVars, lifeVars, subVars, delegateVars, current_layout,
                   borrowed, pc, input_source, result, unavailable, ghostVars>>

\* KeyboardLayout { keys }
KeyboardLayoutMutEmpty(collected) == [keys |-> << >>]
KeyboardLayout(collected) == [keys |-> collected]

\* CFRelease(input_source): the copied handle is given back.
CFReleaseMutLeak(handle) == handle
CFRelease(handle) == None

\* collect(), CFRelease(input_source), KeyboardLayout { keys }, and the store
\* of the closure's value in the slot. CFRelease(NULL) traps.
ReleaseAndStore ==
    /\ status = "running"
    /\ pc = "keys"
    /\ Len(keys) = NumKeys
    /\ IF input_source[1] = NoSource
       THEN /\ status' = "crashed"
            /\ UNCHANGED <<current_layout, input_source, keys, pc, resolved_from>>
       ELSE /\ current_layout' = Some(KeyboardLayout(keys))
            /\ input_source' = CFRelease(input_source)
            /\ resolved_from' = input_source[1]
            /\ keys' = << >>
            /\ pc' = "clone"
            /\ UNCHANGED status
    /\ UNCHANGED <<key_map, osVars, lifeVars, subVars, delegateVars, borrowed,
                   calls, result, unavailable, in_a_row, stale, deref_released>>

\* Some(slot.clone()); the RefMut is dropped.
GetReturn ==
    /\ status = "running"
    /\ pc = "clone"
    /\ result' = current_layout
    /\ borrowed' = FALSE
    /\ pc' = "idle"
    /\ in_a_row' = 0
    /\ UNCHANGED <<key_map, osVars, status, lifeVars, subVars, delegateVars,
                   current_layout, input_source, keys, calls, unavailable, stale,
                   deref_released, resolved_from>>

\* -------------------------------------------------------- assign_weak_self
\* Late::set panics when the value is already set.
LateIsSetMutNever(value) == FALSE
LateIsSet(value) == value

\* CFNotificationCenterAddObserver for
\* kTISNotifySelectedKeyboardInputSourceChanged: the center holds one more
\* observer for the engine.
AddObserverMutMissing(held) == held
AddObserver(held) == held + 1

\* self.weak_self.set(weak.clone()); weak.into_raw();
\* CFNotificationCenterAddObserver(center, ptr, observer, ...,
\* CFNotificationSuspensionBehaviorCoalesce); self.observer.set(ptr).
AssignWeakSelf ==
    /\ CallerReady
    /\ IF LateIsSet(weak_self)
       THEN /\ status' = "panicked"
            /\ UNCHANGED subVars
       ELSE /\ weak_self' = TRUE
            /\ token_weak' = token_weak + 1
            /\ registrations' = AddObserver(registrations)
            /\ adds' = adds + 1
            /\ observer' = 1
            /\ UNCHANGED <<removes, status>>
    /\ UNCHANGED <<key_map, osVars, lifeVars, delegateVars, current_layout, borrowed,
                   getVars, ghostVars>>

\* ------------------------------------------------------------------- Drop
\* if !observer.is_null()
ObserverIsNullMutNever(ptr) == FALSE
ObserverIsNull(ptr) == ptr = 0

\* Drop::drop when the last Rc goes away, then the fields are dropped:
\* self.observer.replace(null); when the old value is not null,
\* CFNotificationCenterRemoveObserver and Weak::from_raw(observer), which
\* releases the token's weak reference (a second release of it traps).
DropEngine ==
    /\ dropped' = TRUE
    /\ observer' = 0
    /\ IF ObserverIsNull(observer)
       THEN UNCHANGED <<registrations, removes, token_weak, status>>
       ELSE /\ registrations' = registrations - 1
            /\ removes' = removes + 1
            /\ IF token_weak = 0
               THEN status' = "crashed" /\ UNCHANGED token_weak
               ELSE token_weak' = token_weak - 1 /\ UNCHANGED status
    /\ current_layout' = None
    /\ weak_self' = FALSE
    /\ UNCHANGED adds

NoDrop == UNCHANGED <<dropped, subVars, current_layout, status>>

\* The caller lets go of its Rc<PlatformKeyboardLayout>.
OwnerRelease ==
    /\ CallerReady
    /\ owner' = FALSE
    /\ IF in_observer THEN NoDrop ELSE DropEngine
    /\ UNCHANGED <<key_map, osVars, in_observer, other_weak, delegateVars, borrowed,
                   getVars, ghostVars>>

\* The owner of the delegate lets go of it: self.delegate.upgrade() fails
\* from now on.
DelegateRelease ==
    /\ CallerReady
    /\ delegate
    /\ ~in_observer
    /\ delegate' = FALSE
    /\ UNCHANGED <<key_map, osVars, status, lifeVars, subVars, delegate_calls,
                   current_layout, borrowed, getVars, ghostVars>>

\* ------------------------------------------------- observer, on_layout_changed
\* self.current_layout.borrow_mut().take()
TakeLayoutMutKeep(slot) == slot
TakeLayout(slot) == None

\* if let Some(delegate) = self.delegate.upgrade() { delegate.keyboard_map_did_change() }
DelegateInvocationsMutNever(alive) == 0
DelegateInvocations(alive) == IF alive THEN 1 ELSE 0

\* ManuallyDrop::new(Weak::from_raw(observer)): the token keeps its weak reference.
TokenAfterObserverMutConsume(weak) == IF weak > 0 THEN weak - 1 ELSE 0
TokenAfterObserver(weak) == weak

\* The RefMut of self.current_layout.borrow_mut().take() is a temporary: it is
\* dropped at the end of that statement, before the delegate is looked up.
BorrowAfterTakeMutHeld(was) == TRUE
BorrowAfterTake(was) == FALSE

\* The run loop is between calls of the engine's thread.
RunLoopIdleMutAnyTime == status = "running" /\ ~in_observer
RunLoopIdle == status = "running" /\ pc = "idle" /\ ~in_observer

\* on_layout_changed with the rebuild moved into it: the slot is taken and
\* filled again from the selected input source before the delegate is called.
ObserverAliveMutEager ==
    /\ RunLoopIdle
    /\ posted > 0
    /\ ~dropped
    /\ posted' = posted - 1
    /\ deref_released' = (deref_released \/ token_weak = 0)
    /\ token_weak' = TokenAfterObserver(token_weak)
    /\ IF borrowed \/ active_source = NoSource
       THEN /\ status' = "panicked"
            /\ UNCHANGED <<current_layout, borrowed, delegate_calls, in_observer,
                           in_a_row, calls, resolved_from>>
       ELSE /\ current_layout' =
                Some(KeyboardLayout([i \in 1 .. NumKeys |->
                        key_from_entry(key_map[i], active_source).key]))
            /\ calls' = calls + 5 * Cardinality({i \in 1 .. NumKeys : key_map[i].logical = None})
            /\ resolved_from' = active_source
            /\ borrowed' = BorrowAfterTake(borrowed)
            /\ delegate_calls' = delegate_calls + DelegateInvocations(delegate)
            /\ in_observer' = delegate
            /\ in_a_row' = in_a_row + 1
            /\ UNCHANGED status
    /\ UNCHANGED <<key_map, active_source, changes, last_notified, owner, dropped,
                   other_weak, weak_self, observer, registrations, adds, removes,
                   delegate, pc, input_source, keys, result, unavailable, stale>>

\* observer() for a queued notification while the engine exists:
\* layout.upgrade() succeeds and on_layout_changed runs up to the call of the
\* delegate, which stays inside the observer until ObserverReturn.
ObserverAlive ==
    /\ RunLoopIdle
    /\ posted > 0
    /\ ~dropped
    /\ posted' = posted - 1
    /\ deref_released' = (deref_released \/ token_weak = 0)
    /\ token_weak' = TokenAfterObserver(token_weak)
    /\ IF borrowed
       THEN /\ status' = "panicked"
            /\ UNCHANGED <<current_layout, borrowed, delegate_calls, in_observer,
                           in_a_row>>
       ELSE /\ current_layout' = TakeLayout(current_layout)
            /\ borrowed' = BorrowAfterTake(borrowed)
            /\ delegate_calls' = delegate_calls + DelegateInvocations(delegate)
            /\ in_observer' = delegate
            /\ in_a_row' = in_a_row + 1
            /\ UNCHANGED status
    /\ UNCHANGED <<key_map, active_source, changes, last_notified, owner, dropped,
                   other_weak, weak_self, observer, registrations, adds, removes,
                   delegate, getVars, stale, resolved_from>>

\* observer() for a notification that was queued for the token before the
\* engine was dropped. Drop has released the token: when no other Weak keeps
\* the allocation, from_raw and upgrade read freed memory, which either traps
\* or happens to read a zero strong count; otherwise upgrade() is None.
ObserverDead ==
    /\ RunLoopIdle
    /\ posted > 0
    /\ dropped
    /\ posted' = posted - 1
    /\ stale' = TRUE
    /\ deref_released' = (deref_released \/ token_weak = 0)
    /\ \/ UNCHANGED status
       \/ /\ token_weak = 0
          /\ ~other_weak
          /\ status' = "crashed"
    /\ UNCHANGED <<key_map, active_source, changes, last_notified, lifeVars, subVars,
                   delegateVars, current_layout, borrowed, getVars, in_a_row,
                   resolved_from>>

\* keyboard_map_did_change returns, on_layout_changed returns and observer()
\* drops the upgraded Rc, the last one when the caller released its own.
ObserverReturn ==
    /\ status = "running"
    /\ in_observer
    /\ pc = "idle"
    /\ in_observer' = FALSE
    /\ IF owner THEN NoDrop ELSE DropEngine
    /\ UNCHANGED <<key_map, osVars, owner, other_weak, delegateVars, borrowed,
                   getVars, ghostVars>>

\* ------------------------------------------------------------------ the OS
\* The user selects input source s (or the OS is left without one). With
\* CFNotificationSuspensionBehaviorCoalesce the center queues the notification
\* for a registered observer or merges it into one already queued.
ChangeSource(s) ==
    /\ status = "running"
    /\ changes < MaxChanges
    /\ active_source' = s
    /\ changes' = changes + 1
    /\ last_notified' = ~ObserverIsNull(observer)
    /\ IF registrations > 0
       THEN \/ posted' = IF posted < MaxPending THEN posted + 1 ELSE posted
            \/ posted > 0 /\ posted' = posted
       ELSE posted' = posted
    /\ UNCHANGED <<key_map, status, lifeVars, subVars, delegateVars, current_layout,
                   borrowed, getVars, ghostVars>>

Next ==
    \/ GetBegin
    \/ CopyInputSource
    \/ KeyFromEntry
    \/ ReleaseAndStore
    \/ GetReturn
    \/ AssignWeakSelf
    \/ OwnerRelease
    \/ DelegateRelease
    \/ ObserverAlive
    \/ ObserverDead
    \/ ObserverReturn
    \/ \E s \in Sources \cup {NoSource} : ChangeSource(s)

Spec == Init /\ [][Next]_vars

\* ================================================================== claims
\* get_current_layout returns in this step.
Returns == pc = "clone" /\ pc' = "idle"

\* The layout one pass of create_keyboard_layout yields for input source src.
SnapshotOf(km, src) == [keys |-> [i \in 1 .. NumKeys |-> key_from_entry(km[i], src).key]]

\* C1: cache coherence. Once get_current_layout has returned a snapshot S, a
\* later get_current_layout with no layout-change notification handled in
\* between returns a snapshot equal to S and calls UCKeyTranslate zero times.
CacheCoherence ==
    [][(Returns /\ in_a_row = 0 /\ result # None) => (result' = result /\ calls' = 0)]_vars

\* C1 witness: a call has returned from the cache, without a translation call.
CacheCoherenceWitness ==
    pc = "idle" /\ result # None /\ result = current_layout /\ calls = 0 /\ in_a_row = 0

TeardownSafety ==
    stale => (status # "crashed" /\ ~deref_released)

\* C4: InputSourceUnavailable, as claimed. When the OS supplies no input
\* source the resolution fails as a whole: the process keeps running, no
\* UCKeyTranslate call is made on the missing layout and nothing is stored.
InputSourceUnavailableFails ==
    unavailable => (status = "running" /\ calls = 0 /\ current_layout = None)

\* A layout-change notification is handed to observer() in this step while
\* the engine exists.
DeliveredAlive == posted' < posted /\ ~dropped

\* C5, as claimed: every notification delivered while the engine exists
\* leaves the cache empty and invokes keyboard_map_did_change exactly once.
NotificationInvokesDelegateOnce ==
    [][DeliveredAlive =>
        (current_layout' = None /\ delegate_calls' = delegate_calls + 1)]_vars

\* C5, amended: every notification delivered while the engine exists empties
\* the cache, and invokes keyboard_map_did_change exactly once when the
\* delegate is still alive and not at all when it has been released.
NotificationHandling ==
    [][DeliveredAlive =>
        /\ current_layout' = None
        /\ delegate_calls' = delegate_calls + (IF delegate THEN 1 ELSE 0)
        /\ in_observer' = delegate]_vars

\* C5 witness: the delegate is running inside a delivery and the cache is empty.
NotificationHandlingWitness ==
    in_observer /\ delegate_calls = 1 /\ current_layout = None /\ result # None

\* C6: eventual freshness under coalescing. For a registered engine, once the
\* notification for the latest selection has been delivered (earlier ones
\* merged or not), every get_current_layout that returns yields the snapshot
\* of the input source that is selected now, never that of an earlier one.
EventualFreshness ==
    [][(Returns /\ last_notified /\ posted = 0) =>
        result' = Some(SnapshotOf(key_map, active_source))]_vars

\* C6 witness: two selections were merged into one delivery, and the call
\* after it returned the snapshot of the selected source.
EventualFreshnessWitness ==
    /\ pc = "idle" /\ changes = 2 /\ last_notified /\ posted = 0
    /\ adds = 1 /\ delegate /\ delegate_calls = 1 /\ in_a_row = 0
    /\ calls >= 1
    /\ result = Some(SnapshotOf(key_map, active_source))

\* What UCKeyTranslate reports for one key and one modifier state of src.
Reported(src, code, mods) ==
    UCKeyTranslate(src, code, mods, kUCKeyTranslateNoDeadKeysMask,
                   [dead_key_state |-> 0, unichar |-> 0, unichar_count |-> 0])

\* The field of a Key for a modifier state is the produced character
\* exactly when one or more characters were reported, and absent otherwise.
FieldCorrect(field, src, code, mods) ==
    IF Reported(src, code, mods).unichar_count > 0
    THEN field = Some(Reported(src, code, mods).unichar)
    ELSE field = None

KeyCorrect(key, src) ==
    /\ FieldCorrect(key.logical, src, key.platform, ModNone)
    /\ FieldCorrect(key.logical_shift, src, key.platform, ModShift)
    /\ FieldCorrect(key.logical_alt, src, key.platform, ModAlt)
    /\ FieldCorrect(key.logical_alt_shift, src, key.platform, ModAltShift)
    /\ FieldCorrect(key.logical_meta, src, key.platform, ModCmd)

\* C7: per-modifier field correctness. For every entry without a fixed
\* logical value, each of logical, logical_shift, logical_alt,
\* logical_alt_shift and logical_meta holds the produced character exactly
\* when UCKeyTranslate reported one for that key and modifier state of the
\* copied input source, and is absent exactly when it reported none.
PerModifierFields ==
    (input_source # None /\ input_source # Some(NoSource)) =>
        \A i \in 1 .. Len(keys) :
            key_map[i].logical = None => KeyCorrect(keys[i], input_source[1])

\* C7 witness: a translated key with a present field before an absent one.
PerModifierFieldsWitness ==
    /\ input_source # None /\ input_source # Some(NoSource)
    /\ \E i \in 1 .. Len(keys) :
        /\ key_map[i].logical = None
        /\ keys[i].logical # None
        /\ keys[i].logical_shift = None
        /\ keys[i].logical_meta # None

\* C8: fixed-value bypass. Every entry with a fixed logical value yields a
\* Key whose logical is that value and whose four other fields are absent,
\* and no UCKeyTranslate call is made for it, whatever the layout data is.
FixedValueBypass ==
    /\ \A i \in 1 .. Len(keys) :
        key_map[i].logical # None =>
            /\ keys[i].logical = key_map[i].logical
            /\ keys[i].logical_shift = None
            /\ keys[i].logical_alt = None
            /\ keys[i].logical_alt_shift = None
            /\ keys[i].logical_meta = None
            /\ keys[i].platform = key_map[i].platform
            /\ keys[i].physical = key_map[i].physical
    /\ pc = "keys" =>
        calls = 5 * Cardinality({i \in 1 .. Len(keys) : key_map[i].logical = None})

\* C8 witness: a fixed entry has been resolved after a translated one.
FixedValueBypassWitness ==
    /\ pc = "keys" /\ Len(keys) = 2 /\ calls = 5
    /\ key_map[2].logical # None
    /\ keys[2].logical = key_map[2].logical

\* C9: notification idempotence. While notifications are handled one after
\* the other the cache stays empty, the second leaving it as the first did,
\* and the get_current_layout after them resolves and returns a snapshot of
\* all the keys.
NotificationIdempotence ==
    /\ [](/\ (in_a_row >= 1 /\ pc \in {"idle", "create", "keys"}) => current_layout = None
          /\ (in_a_row >= 1 /\ pc = "clone") => calls >= 1)
    /\ [][(Returns /\ in_a_row >= 1) =>
            /\ Len(result'[1].keys) = NumKeys
            /\ \E src \in Sources : result' = Some(SnapshotOf(key_map, src))]_vars

\* C9 witness: the notification was handled twice in a row and the call
\* after it has resolved a snapshot.
NotificationIdempotenceWitness ==
    in_a_row = 2 /\ pc = "clone" /\ current_layout # None

\* C10, as claimed: the engine subscribes exactly once and unsubscribes
\* exactly once at teardown.
SubscribesExactlyOnce ==
    dropped => (adds = 1 /\ removes = 1)

\* C10, amended: the subscription only moves Unregistered -> Registered ->
\* Unregistered. The engine subscribes at most once, never a second time,
\* and at teardown it unsubscribes exactly once when it was subscribed and
\* not at all when assign_weak_self was never called.
OneShotSubscription ==
    /\ adds <= 1
    /\ removes <= adds
    /\ registrations = adds - removes
    /\ dropped => removes = adds
    /\ ~dropped => removes = 0
    /\ (observer # 0) = (registrations = 1)

\* C10 witness: a registered engine has been torn down.
OneShotSubscriptionWitness ==
    dropped /\ adds = 1 /\ removes = 1 /\ registrations = 0

\* C11: lazy invalidation. Handling a notification empties the cache and
\* resolves nothing by itself: the step makes no UCKeyTranslate call, copies
\* no input source and collects no key; from then until the next
\* get_current_layout begins the cache stays empty and still no UCKeyTranslate
\* call and no input-source read happens.
LazyInvalidation ==
    /\ [][DeliveredAlive =>
            /\ current_layout' = None
            /\ UNCHANGED <<pc, input_source, keys, calls, resolved_from>>]_vars
    /\ [][(in_a_row >= 1 /\ pc = "idle" /\ pc' = "idle") =>
            /\ current_layout' = None
            /\ UNCHANGED <<input_source, keys, calls, resolved_from>>]_vars

\* C11 witness: a snapshot had been resolved with UCKeyTranslate calls, the
\* source changed, the notification was handled, and the engine sits idle
\* with an empty cache and the counters of the earlier call untouched.
LazyInvalidationWitness ==
    /\ in_a_row >= 1 /\ pc = "idle" /\ ~in_observer /\ ~dropped
    /\ current_layout = None /\ result # None /\ calls > 0
    /\ input_source = None /\ resolved_from # active_source


\* A filled slot holds one Key per key map entry, in the order of the key
\* map, with platform and physical copied from the entry, and no physical
\* value twice.
ShapeOfKeyMap(slot) ==
    slot # None =>
        LET ks == slot[1].keys
        IN  /\ Len(ks) = Len(key_map)
            /\ \A i \in 1 .. Len(ks) :
                /\ ks[i].platform = key_map[i].platform
                /\ ks[i].physical = key_map[i].physical
            /\ \A i, j \in 1 .. Len(ks) : i # j => ks[i].physical # ks[j].physical

\* C12: snapshot shape. Every snapshot get_current_layout has returned, and
\* every snapshot in the cache, holds exactly one Key per key map entry, in
\* key map order, with platform and physical copied from the entry; its
\* length is the length of the key map and no physical value occurs twice.
SnapshotShape ==
    ShapeOfKeyMap(result) /\ ShapeOfKeyMap(current_layout)

\* C12 witness: a snapshot has been returned for a key map that has a fixed
\* and a translated entry.
SnapshotShapeWitness ==
    /\ pc = "idle" /\ result # None /\ Len(result[1].keys) = NumKeys
    /\ \E i, j \in 1 .. NumKeys :
        /\ i < j
        /\ key_map[i].logical # None
        /\ key_map[j].logical = None
        /\ result[1].keys[j].physical = key_map[j].physical


NoDoubleRelease ==
    /\ removes <= 1
    /\ token_weak \in {0, 1}
    /\ adds - token_weak = removes
    /\ adds = 0 => (removes = 0 /\ token_weak = 0)
    /\ dropped => (observer = 0 /\ token_weak = 0)

\* C14 witness: a registered engine has been dropped; the sentinel is in
\* place, the observer was removed once and the token's weak reference is
\* released.
NoDoubleReleaseWitness ==
    /\ dropped /\ status = "running"
    /\ observer = 0 /\ adds = 1 /\ removes = 1 /\ token_weak = 0


FreshLocals == [dead_key_state |-> 0, unichar |-> 0, unichar_count |-> 0]

\* What one UCKeyTranslate call for key code of src, made with the options the
\* engine passes, can leave in dead_key_state, unichar and unichar_count.
LeftBehind(src, code) ==
    {FreshLocals} \cup
    { UCKeyTranslate(src, code, mods, TranslateOptions, FreshLocals) :
        mods \in {ModNone, ModShift, ModAlt, ModAltShift, ModCmd} }

\* The field is what the lookup for mods gives whatever an earlier lookup for
\* the same key left in the shared locals.
FieldIndependent(field, src, code, mods) ==
    \A left \in LeftBehind(src, code) :
        field = FieldOf(UCKeyTranslate(src, code, mods, TranslateOptions, left))

\* C16: independent lookups. For every entry without a fixed logical value,
\* each of the five fields is the outcome of its own UCKeyTranslate call
\* alone: it is the same whatever dead-key state, character or count an
\* earlier call for that key left behind.
IndependentLookups ==
    (input_source # None /\ input_source # Some(NoSource)) =>
        \A i \in 1 .. Len(keys) :
            key_map[i].logical = None =>
                LET src == input_source[1]
                    code == keys[i].platform
                IN  /\ FieldIndependent(keys[i].logical, src, code, ModNone)
                    /\ FieldIndependent(keys[i].logical_shift, src, code, ModShift)
                    /\ FieldIndependent(keys[i].logical_alt, src, code, ModAlt)
                    /\ FieldIndependent(keys[i].logical_alt_shift, src, code, ModAltShift)
                    /\ FieldIndependent(keys[i].logical_meta, src, code, ModCmd)

\* C16 witness: the unmodified lookup of a translated key hit a dead key and
\* yielded its spacing character; the shifted lookup after it yielded nothing
\* and a later one yielded a character of its own.
IndependentLookupsWitness ==
    /\ input_source # None /\ input_source # Some(NoSource)
    /\ \E i \in 1 .. Len(keys) :
        /\ key_map[i].logical = None
        /\ IsDeadKey(input_source[1], keys[i].platform, ModNone)
        /\ keys[i].logical = Some(Glyph(input_source[1], keys[i].platform, ModNone))
        /\ keys[i].logical_shift = None
        /\ keys[i].logical_meta # None
        /\ keys[i].logical_meta # keys[i].logical


\* C17: input-source handle discipline. The copied handle is held exactly
\* while create_keyboard_layout is collecting keys: it is acquired once, at
\* the start of the pass, and given back once, in the step that ends the
\* pass, when every key has been collected and with no UCKeyTranslate call
\* after it; no handle is held once get_current_layout has returned.
HandleDiscipline ==
    /\ [](input_source # None <=> pc = "keys")
    /\ [][input_source' # input_source =>
            \/ /\ input_source = None
               /\ pc = "create" /\ pc' = "keys"
            \/ /\ input_source' = None
               /\ pc = "keys" /\ pc' = "clone"
               /\ Len(keys) = NumKeys
               /\ calls' = calls]_vars
    /\ [][pc = "clone" => calls' = calls]_vars

\* C17 witness: a pass over a real input source has made its UCKeyTranslate
\* calls, stored its snapshot and holds no handle any more.
HandleDisciplineWitness ==
    /\ pc = "clone" /\ calls > 0 /\ input_source = None
    /\ resolved_from \in Sources /\ current_layout # None


\* C18: token ownership across deliveries. Handling a notification, before
\* or after the engine was dropped, does not change the number of weak
\* references the token owns: from assign_weak_self until Drop it is exactly
\* one, however many notifications were delivered. The token does not keep
\* the engine alive: once the caller has released its Rc and no observer()
\* call holds an upgraded one, the engine is dropped, registered or not.
TokenOwnershipPreserved ==
    /\ [][posted' < posted => token_weak' = token_weak]_vars
    /\ []((adds = 1 /\ ~dropped) => (token_weak = 1 /\ observer # 0))
    /\ []((~owner /\ ~in_observer) => dropped)

\* C18 witness: two notifications in a row were delivered to a registered
\* engine and the token still owns its one weak reference.
TokenOwnershipPreservedWitness ==
    /\ in_a_row = 2 /\ ~in_observer /\ ~dropped
    /\ adds = 1 /\ observer # 0 /\ token_weak = 1


\* C19: invalidate before notify. At every invocation of
\* keyboard_map_did_change the cache is already empty and the slot is not
\* borrowed; a get_current_layout the delegate makes from inside the callback
\* borrows the slot without a panic and misses the cache, and when it returns
\* it gives a snapshot resolved during that call from the input source it
\* copied, not the snapshot cached before the change.
InvalidateBeforeNotify ==
    /\ [][delegate_calls' > delegate_calls =>
            (in_observer' /\ current_layout' = None /\ ~borrowed' /\ pc' = "idle")]_vars
    /\ [][(in_observer /\ in_a_row >= 1 /\ pc = "idle" /\ pc' # "idle") =>
            (status' = "running" /\ borrowed' /\ pc' = "create")]_vars
    /\ [][(Returns /\ in_observer /\ in_a_row >= 1) =>
            (calls > 0 /\ result' = Some(SnapshotOf(key_map, resolved_from)))]_vars

\* C19 witness: inside the delegate callback get_current_layout has resolved
\* a snapshot that differs from the one returned before the change.
InvalidateBeforeNotifyWitness ==
    /\ in_observer /\ in_a_row >= 1 /\ pc = "clone" /\ calls > 0
    /\ result # None /\ current_layout # None /\ current_layout # result

====
